---- MODULE Spec2Model ----
(***************************************************************************)
(* Model of the alertmanager-webhook-servicenow incident workflow          *)
(* (src/main.go, second file of the listing, lines 189-535) running        *)
(* against a ServiceNow incident table.                                    *)
(*                                                                         *)
(* Every string of the program is a TLA+ string.  A Go map[string]string   *)
(* (Incident, template.KV, the query parameters) is a function whose       *)
(* domain is the key set.  A Go nil error is the empty string NoError.     *)
(* net/http serves every request on its own goroutine: a handler is a      *)
(* process of the model, and it is interleaved with the other handlers     *)
(* and with the other actors of the ticketing system at its remote calls.  *)
(***************************************************************************)
EXTENDS Integers, Sequences, FiniteSets, TLC

(***************************************************************************)
(* Bounds of the model.                                                    *)
(***************************************************************************)
\* number of requests the HTTP server may be serving at the same time
NumHandlers == 2
\* capacity of the incident table; a create beyond it fails remotely
MaxTickets == 2
\* number of requests served in one behaviour of Spec
MaxRequests == 2
\* number of requests served in one behaviour of SpecSeq
MaxSeqRequests == 3

Handlers == 1..NumHandlers

NoError == ""

\* an Incident{} / map with no key
EmptyIncident == [k \in {} |-> ""]

(***************************************************************************)
(* Configurations (type Config): the state loadConfigContent can leave     *)
(* the process in.  Template texts are the values of default_incident.     *)
(***************************************************************************)
GroupKeyField == "u_group_key"

StandardConfig ==
    [ServiceNow |-> [UserName |-> "SA"],
     Workflow |-> [IncidentGroupKeyField |-> GroupKeyField,
                   NoUpdateStates |-> <<"6", "7">>,
                   IncidentUpdateFields |-> <<"comments">>],
     DefaultIncident |-> ("comments" :> "{{.Status}}") @@ ("impact" :> "2")]

\* the minimal configuration of TestLoadConfigContent_Ok_Minimal:
\* no default_incident, no no_update_states, no incident_update_fields
MinimalConfig ==
    [ServiceNow |-> [UserName |-> "SA"],
     Workflow |-> [IncidentGroupKeyField |-> GroupKeyField,
                   NoUpdateStates |-> <<>>,
                   IncidentUpdateFields |-> <<>>],
     DefaultIncident |-> EmptyIncident]

\* default_incident sets the state field and the whitelist names it,
\* together with a field no candidate has
StateConfig ==
    [ServiceNow |-> [UserName |-> "SA"],
     Workflow |-> [IncidentGroupKeyField |-> GroupKeyField,
                   NoUpdateStates |-> <<"6", "7">>,
                   IncidentUpdateFields |-> <<"state", "comments", "priority">>],
     DefaultIncident |-> ("state" :> "2") @@ ("comments" :> "{{.Status}}")]

\* default_incident defines the field that workflow.incident_group_key_field
\* names, a template that does not parse, a template that does not execute,
\* and an urgency that renders to the status text, which is not an integer
OverrideConfig ==
    [ServiceNow |-> [UserName |-> "SA"],
     Workflow |-> [IncidentGroupKeyField |-> GroupKeyField,
                   NoUpdateStates |-> <<"6", "7">>,
                   IncidentUpdateFields |-> <<"comments", "caller_id">>],
     DefaultIncident |-> (GroupKeyField :> "prometheus")
                         @@ ("comments" :> "{{")
                         @@ ("short_description" :> "{{.Nope}}")
                         @@ ("urgency" :> "{{.Status}}")]

Configs == {StandardConfig, MinimalConfig, StateConfig, OverrideConfig}

(***************************************************************************)
(* Request bodies.  A body is its raw text; a well-formed JSON document is *)
(* written raw = "json" with its content in doc (template.Data).           *)
(***************************************************************************)
\* names of the grouping labels, in ascending byte order
LabelOrder == <<"alertname", "client">>

GroupLabelSets ==
    { ("alertname" :> "A"),
      ("client" :> "B") @@ ("alertname" :> "A") }

Statuses == {"firing", "resolved", "Firing", ""}

EmptyData == [Status |-> "", GroupLabels |-> EmptyIncident]

Docs == [Status : Statuses, GroupLabels : GroupLabelSets]

Bodies ==
    {[raw |-> "", doc |-> EmptyData], [raw |-> "{", doc |-> EmptyData]}
    \cup {[raw |-> "json", doc |-> d] : d \in Docs}

\* lifecycle states the other actors of the ticketing system may set
TicketStates == {"1", "6"}

\* the state ServiceNow gives a new incident that carries none
NewState == "1"

RemoteError == "ServiceNow returned the HTTP error code: 500"

\* the errors a call of the client may return
RemoteErrors == {RemoteError, "ServiceNow returned the HTTP error code: 403"}

VARIABLES
    config,                \* var config Config
    noUpdateStates,        \* var noUpdateStates map[json.Number]bool
    incidentUpdateFields,  \* var incidentUpdateFields map[string]bool
    served,                \* number of requests accepted so far
    tickets,               \* the incident table of the ServiceNow instance
    origin,                \* per ticket, history: the group key its create
                           \* was issued for, whether it has been updatable
                           \* ever since (stayed) and whether its group-key
                           \* field has held that group key ever since (kept)
    pc,                    \* per handler: position in webhook()
    body,                  \* per handler: the request body being served
    data,                  \* per handler: template.Data decoded from it
    updatableIncident,     \* per handler: <<>> (nil) or <<incident>>
    calls,                 \* per handler: remote calls of the current request
    resp,                  \* per handler: responses written for it
    fn,                    \* the function applied on its own last, "" if none
    arg,                   \* its arguments
    ret                    \* the value it returned

vars == <<config, noUpdateStates, incidentUpdateFields, served, tickets, origin,
          pc, body, data, updatableIncident, calls, resp, fn, arg, ret>>

\* the state of the workflow: the requests and the incident table
workflow == <<served, tickets, origin, pc, body, data, updatableIncident,
              calls, resp>>

\* the record of a function applied on its own
applied == <<fn, arg, ret>>

Range(s) == {s[i] : i \in 1..Len(s)}


(***************************************************************************)
(* Pure functions of main.go.                                              *)
(***************************************************************************)

\* variant: the empty body decodes to the zero template.Data without error
readRequestBodyLenient(b) ==
    IF b.raw = "{" THEN [data |-> EmptyData, err |-> "unexpected EOF"]
    ELSE [data |-> b.doc, err |-> NoError]

\* json.NewDecoder(r.Body).Decode(&data): the empty body is io.EOF, a
\* truncated document io.ErrUnexpectedEOF, a document decodes to its content
readRequestBody(b) ==
    IF b.raw = "" THEN [data |-> EmptyData, err |-> "EOF"]
    ELSE IF b.raw = "{" THEN [data |-> EmptyData, err |-> "unexpected EOF"]
    ELSE [data |-> b.doc, err |-> NoError]

\* variant: the header is left to the default of the first Write, 200
sendJSONResponseNoHeader(status, message) ==
    [Code |-> 200, Body |-> [Status |-> status, Message |-> message]]

\* sendJSONResponse: w.WriteHeader(status), then the JSON body
sendJSONResponse(status, message) ==
    [Code |-> status, Body |-> [Status |-> status, Message |-> message]]

\* variant: an error of the workflow is answered like a success
webhookResponseSwallowsError(err) == sendJSONResponse(200, "Success")

\* webhook() after onAlertGroup has returned err
webhookResponse(err) ==
    IF err # NoError THEN sendJSONResponse(500, err)
    ELSE sendJSONResponse(200, "Success")

\* loadConfigContent: the two lookup sets built from the Workflow lists
loadNoUpdateStates(c) == Range(c.Workflow.NoUpdateStates)

loadIncidentUpdateFields(c) == Range(c.Workflow.IncidentUpdateFields)

\* template.KV.SortedPairs: the pairs of the map in ascending name order
SortedPairs(kv) ==
    LET names == SelectSeq(LabelOrder, LAMBDA n : n \in DOMAIN kv)
    IN  [i \in 1..Len(names) |-> [Name |-> names[i], Value |-> kv[names[i]]]]

\* fmt.Sprintf("%v", pairs) of a []Pair: [{n1 v1} {n2 v2}]
RECURSIVE PairsString(_)
PairsString(pairs) ==
    IF Len(pairs) = 0 THEN ""
    ELSE "{" \o pairs[1].Name \o " " \o pairs[1].Value \o "}"
         \o (IF Len(pairs) > 1 THEN " " ELSE "")
         \o PairsString(Tail(pairs))

\* md5.Sum printed with %x: an injective digest of its argument
md5Sum(text) == "md5(" \o text \o ")"

\* variant: the status is hashed with the labels
getGroupKeyWithStatus(d) ==
    md5Sum(d.Status \o "[" \o PairsString(SortedPairs(d.GroupLabels)) \o "]")

getGroupKey(d) == md5Sum("[" \o PairsString(SortedPairs(d.GroupLabels)) \o "]")

\* text/template Parse and Execute of one field text against the data
applyTemplate(name, text, d) ==
    CASE text = "{{.Status}}" -> [out |-> d.Status, err |-> NoError]
      [] text = "{{" ->
            [out |-> "", err |-> "template: " \o name \o ":1: unclosed action"]
      [] text = "{{.Nope}}" ->
            [out |-> "",
             err |-> "template: " \o name
                     \o ":1:2: can't evaluate field Nope in type template.Data"]
      [] OTHER -> [out |-> text, err |-> NoError]

\* variant: a field whose template fails is left out of the incident
applyIncidentTemplateDropsFailed(incident, d) ==
    [key \in {k \in DOMAIN incident :
                 applyTemplate(k, incident[k], d).err = NoError}
        |-> applyTemplate(key, incident[key], d).out]

\* applyIncidentTemplate: every value replaced by its rendering, by "" on error
applyIncidentTemplate(incident, d) ==
    [key \in DOMAIN incident |-> applyTemplate(key, incident[key], d).out]

\* a field value that is the nil interface rather than a text
Nil == "<nil>"

\* the texts strconv.Atoi accepts, among the texts a field takes here
IntegerTexts == {"0", "1", "2", "6", "7", "-1", "+3", "007"}

\* strconv.Atoi: the error of converting a text to an int
Atoi(text) ==
    IF text \in IntegerTexts
    THEN NoError
    ELSE "strconv.Atoi: parsing \"" \o text \o "\": invalid syntax"

\* the message validateIncident records for a field that is not an integer
NotAnInteger(field, value) ==
    "'" \o field \o "' field value is '" \o value
    \o "' but should be an integer, please fix your configuration."
    \o " Incident creation/update will proceed but this field will be missing"

\* make([]error, 0): a slice that is empty and not nil
makeErrors == [isNil |-> FALSE, elems |-> <<>>]

\* append(slice, elems...): never nil once something was made or appended
appendErrors(slice, errs) ==
    [isNil |-> slice.isNil /\ errs = <<>>, elems |-> slice.elems \o errs]

\* variant: an empty impact or urgency is reported as well
validateIncidentChecksEmpty(incident) ==
    LET check(field) ==
            IF /\ field \in DOMAIN incident
               /\ incident[field] # Nil
               /\ Atoi(incident[field]) # NoError
            THEN <<NotAnInteger(field, incident[field])>>
            ELSE <<>>
    IN  appendErrors(appendErrors(makeErrors, check("impact")),
                     check("urgency"))

\* validateIncident: the slice of the errors of the impact and urgency
\* fields, in that order; a field is checked when present, not nil and not
\* empty
validateIncident(incident) ==
    LET check(field) ==
            IF /\ field \in DOMAIN incident
               /\ incident[field] # Nil
               /\ Len(incident[field]) > 0
               /\ Atoi(incident[field]) # NoError
            THEN <<NotAnInteger(field, incident[field])>>
            ELSE <<>>
    IN  appendErrors(appendErrors(makeErrors, check("impact")),
                     check("urgency"))

\* variant: a base field keeps its value against default_incident
alertGroupToIncidentBaseWins(d) ==
    LET base == (config.Workflow.IncidentGroupKeyField :> getGroupKey(d))
                @@ ("caller_id" :> config.ServiceNow.UserName)
        incident == base @@ config.DefaultIncident
    IN  applyIncidentTemplate(incident, d)

\* alertGroupToIncident: base fields, overlaid by default_incident, rendered
alertGroupToIncident(d) ==
    LET base == (config.Workflow.IncidentGroupKeyField :> getGroupKey(d))
                @@ ("caller_id" :> config.ServiceNow.UserName)
        incident == config.DefaultIncident @@ base
    IN  applyIncidentTemplate(incident, d)

\* variant: the templates are rendered in config.DefaultIncident itself
alertGroupToIncidentConfigInPlace(d) ==
    [config EXCEPT !.DefaultIncident = applyIncidentTemplate(@, d)]

\* the process-wide configuration after alertGroupToIncident(d): the entries
\* of default_incident were copied to a new Incident, which alone is rendered
alertGroupToIncidentConfig(d) == config

\* variant: the whole candidate is sent on update
filterForUpdateKeepsAll(incident) == incident

\* variant: every whitelisted field is sent, empty when the candidate lacks it
filterForUpdateAddsMissing(incident) ==
    [field \in incidentUpdateFields
        |-> IF field \in DOMAIN incident THEN incident[field] ELSE ""]

filterForUpdate(incident) ==
    [field \in {f \in DOMAIN incident : f \in incidentUpdateFields}
        |-> incident[field]]

\* accessors of Incident
GetState(incident) == incident["state"]

GetSysID(incident) == incident["sys_id"]

GetNumber(incident) == incident["number"]

\* variant: incidents in a no-update state are kept
filterUpdatableIncidentsKeepsAll(incidents) == incidents

filterUpdatableIncidents(incidents) ==
    SelectSeq(incidents, LAMBDA incident : GetState(incident) \notin noUpdateStates)

\* variant: the error of the query is logged and the workflow goes on
onAlertGroupIgnoresError(d, existingIncidents, err) ==
    LET updatableIncidents == filterUpdatableIncidents(existingIncidents)
    IN  [err |-> NoError,
         updatableIncident |->
             IF Len(updatableIncidents) > 0
             THEN <<updatableIncidents[1]>> ELSE <<>>,
         next |-> IF d.Status = "firing" THEN "onFiringGroup"
                  ELSE IF d.Status = "resolved" THEN "onResolvedGroup"
                  ELSE "return"]

\* variant: the status is compared without regard to case
onAlertGroupFoldsCase(d, existingIncidents, err) ==
    LET updatableIncidents == filterUpdatableIncidents(existingIncidents)
    IN  IF err # NoError
        THEN [err |-> err, updatableIncident |-> <<>>, next |-> "return"]
        ELSE [err |-> NoError,
              updatableIncident |->
                  IF Len(updatableIncidents) > 0
                  THEN <<updatableIncidents[1]>> ELSE <<>>,
              next |-> IF d.Status \in {"firing", "Firing"} THEN "onFiringGroup"
                       ELSE IF d.Status = "resolved" THEN "onResolvedGroup"
                       ELSE "return"]

\* variant: the last updatable incident is selected
onAlertGroupPicksLast(d, existingIncidents, err) ==
    LET updatableIncidents == filterUpdatableIncidents(existingIncidents)
    IN  IF err # NoError
        THEN [err |-> err, updatableIncident |-> <<>>, next |-> "return"]
        ELSE [err |-> NoError,
              updatableIncident |->
                  IF Len(updatableIncidents) > 0
                  THEN <<updatableIncidents[Len(updatableIncidents)]>> ELSE <<>>,
              next |-> IF d.Status = "firing" THEN "onFiringGroup"
                       ELSE IF d.Status = "resolved" THEN "onResolvedGroup"
                       ELSE "return"]

\* onAlertGroup from the return of GetIncidents to the choice of the branch:
\* the error it returns, the incident it selects (<<>> is nil) and the
\* function it goes on with ("return" when it returns nil itself)
onAlertGroup(d, existingIncidents, err) ==
    LET updatableIncidents == filterUpdatableIncidents(existingIncidents)
    IN  IF err # NoError
        THEN [err |-> err, updatableIncident |-> <<>>, next |-> "return"]
        ELSE [err |-> NoError,
              updatableIncident |->
                  IF Len(updatableIncidents) > 0
                  THEN <<updatableIncidents[1]>> ELSE <<>>,
              next |-> IF d.Status = "firing" THEN "onFiringGroup"
                       ELSE IF d.Status = "resolved" THEN "onResolvedGroup"
                       ELSE "return"]

\* variant: the create call is given the update parameter
onFiringGroupCreatesFiltered(d, updatable) ==
    LET incidentCreateParam == alertGroupToIncident(d)
        incidentUpdateParam == filterForUpdate(incidentCreateParam)
    IN  IF updatable = <<>>
        THEN [op |-> "CreateIncident", arg |-> incidentUpdateParam, sysID |-> ""]
        ELSE [op |-> "UpdateIncident", arg |-> incidentUpdateParam,
              sysID |-> GetSysID(updatable[1])]

\* variant: a firing group creates an incident whatever the query found
onFiringGroupAlwaysCreates(d, updatable) ==
    [op |-> "CreateIncident", arg |-> alertGroupToIncident(d), sysID |-> ""]

\* the remote call onFiringGroup issues
onFiringGroup(d, updatable) ==
    LET incidentCreateParam == alertGroupToIncident(d)
        incidentUpdateParam == filterForUpdate(incidentCreateParam)
    IN  IF updatable = <<>>
        THEN [op |-> "CreateIncident", arg |-> incidentCreateParam, sysID |-> ""]
        ELSE [op |-> "UpdateIncident", arg |-> incidentUpdateParam,
              sysID |-> GetSysID(updatable[1])]

\* variant: a resolved group without updatable incident creates one
onResolvedGroupCreates(d, updatable) ==
    LET incidentCreateParam == alertGroupToIncident(d)
        incidentUpdateParam == filterForUpdate(incidentCreateParam)
    IN  IF updatable = <<>>
        THEN [op |-> "CreateIncident", arg |-> incidentCreateParam, sysID |-> ""]
        ELSE [op |-> "UpdateIncident", arg |-> incidentUpdateParam,
              sysID |-> GetSysID(updatable[1])]

\* variant: an update that would send no field is skipped
onResolvedGroupSkipsEmptyUpdate(d, updatable) ==
    LET incidentCreateParam == alertGroupToIncident(d)
        incidentUpdateParam == filterForUpdate(incidentCreateParam)
    IN  IF updatable = <<>> \/ incidentUpdateParam = EmptyIncident
        THEN [op |-> "none", arg |-> EmptyIncident, sysID |-> ""]
        ELSE [op |-> "UpdateIncident", arg |-> incidentUpdateParam,
              sysID |-> GetSysID(updatable[1])]

\* variant: a resolved group updates with the create parameter
onResolvedGroupUpdatesUnfiltered(d, updatable) ==
    LET incidentCreateParam == alertGroupToIncident(d)
    IN  IF updatable = <<>>
        THEN [op |-> "none", arg |-> EmptyIncident, sysID |-> ""]
        ELSE [op |-> "UpdateIncident", arg |-> incidentCreateParam,
              sysID |-> GetSysID(updatable[1])]

\* variant: an incident with a validation error is not sent
onResolvedGroupSkipsInvalid(d, updatable) ==
    LET incidentCreateParam == alertGroupToIncident(d)
        incidentUpdateParam == filterForUpdate(incidentCreateParam)
    IN  IF updatable = <<>> \/ validateIncident(incidentCreateParam).elems # <<>>
        THEN [op |-> "none", arg |-> EmptyIncident, sysID |-> ""]
        ELSE [op |-> "UpdateIncident", arg |-> incidentUpdateParam,
              sysID |-> GetSysID(updatable[1])]

\* the remote call onResolvedGroup issues, "none" when it only logs
onResolvedGroup(d, updatable) ==
    LET incidentCreateParam == alertGroupToIncident(d)
        incidentUpdateParam == filterForUpdate(incidentCreateParam)
    IN  IF updatable = <<>>
        THEN [op |-> "none", arg |-> EmptyIncident, sysID |-> ""]
        ELSE [op |-> "UpdateIncident", arg |-> incidentUpdateParam,
              sysID |-> GetSysID(updatable[1])]

(***************************************************************************)
(* The ServiceNow incident table behind the client (table API).            *)
(***************************************************************************)

\* GET incident?<params>: the records matching every parameter, table order
GetIncidents(params) ==
    SelectSeq(tickets, LAMBDA t : \A k \in DOMAIN params :
                                     k \in DOMAIN t /\ t[k] = params[k])

\* POST incident: the record stored, with the fields sent
CreateIncident(incident) ==
    ("sys_id" :> ToString(Len(tickets) + 1))
    @@ ("number" :> "INC" \o ToString(Len(tickets) + 1))
    @@ incident
    @@ ("state" :> NewState)

\* PUT incident/<sysID>: the record after the fields sent are written
UpdateIncident(t, incident) ==
    ("sys_id" :> t["sys_id"]) @@ ("number" :> t["number"]) @@ incident @@ t

IndexOf(sysID) == CHOOSE i \in 1..Len(tickets) : tickets[i]["sys_id"] = sysID

Updatable(t) == t["state"] \notin noUpdateStates

\* the group-key field of record t holds key
Holds(t, key) ==
    /\ config.Workflow.IncidentGroupKeyField \in DOMAIN t
    /\ t[config.Workflow.IncidentGroupKeyField] = key

(***************************************************************************)
(* Initial state: main() has loaded one configuration, the incident table  *)
(* is empty and no request is being served.                                *)
(***************************************************************************)
\* an incident that is in the table before the first request
Existing(n, key, state) ==
    ("sys_id" :> ToString(n)) @@ ("number" :> "INC" \o ToString(n))
    @@ (GroupKeyField :> key) @@ ("state" :> state)

KeyA == getGroupKey([Status |-> "", GroupLabels |-> ("alertname" :> "A")])

InitialTables ==
    { <<>>,
      <<Existing(1, KeyA, "6")>> }

InitProcess ==
    /\ config \in Configs
    /\ noUpdateStates = loadNoUpdateStates(config)
    /\ incidentUpdateFields = loadIncidentUpdateFields(config)
    /\ served = 0
    /\ origin = [i \in 1..Len(tickets) |->
                    [key |-> "", stayed |-> FALSE, kept |-> FALSE]]
    /\ pc = [h \in Handlers |-> "idle"]
    /\ body = [h \in Handlers |-> [raw |-> "", doc |-> EmptyData]]
    /\ data = [h \in Handlers |-> EmptyData]
    /\ updatableIncident = [h \in Handlers |-> <<>>]
    /\ calls = [h \in Handlers |-> <<>>]
    /\ resp = [h \in Handlers |-> <<>>]
    /\ fn = ""
    /\ arg = <<>>
    /\ ret = <<>>

Init ==
    /\ tickets \in InitialTables
    /\ InitProcess

\* the incident table is empty when the webhook is first deployed
InitSeq ==
    /\ tickets = <<>>
    /\ InitProcess

\* variant: requests are served one at a time, behind a process-wide lock
IdleUnderLock(h) == \A g \in Handlers : pc[g] \in {"idle", "done"}

\* webhook() takes a request whenever the goroutine serving it is free
Idle(h) == pc[h] \in {"idle", "done"}

\* the locals of the calls of webhook() once handler h has taken a request:
\* those of h hold the new request, those of a call that has returned are
\* gone, those of a call still running are untouched
Serving(locals, h, new, zero) ==
    [g \in Handlers |->
        IF g = h THEN new
        ELSE IF pc[g] = "done" THEN zero
        ELSE locals[g]]

\* what GetIncidents may return for params: the matching records, or an
\* error, which the ServiceNow interface lets come with records or without
QueryOutcomes(params) ==
    {[result |-> GetIncidents(params), err |-> NoError]}
    \cup [result : {<<>>, GetIncidents(params)}, err : RemoteErrors]

(***************************************************************************)
(* webhook() from the arrival of a request to the return of GetIncidents   *)
(* and the choice of the branch: readRequestBody, then onAlertGroup up to  *)
(* its call of onFiringGroup or onResolvedGroup.                           *)
(***************************************************************************)
HandleRequest(h) ==
    /\ Idle(h)
    \* goroutines are interchangeable: the request goes to the first free one
    /\ \A g \in 1..(h - 1) : ~Idle(g)
    /\ served' = served + 1
    /\ \E b \in Bodies :
        LET read == readRequestBody(b)
            d == read.data
            getParams == (config.Workflow.IncidentGroupKeyField :> getGroupKey(d))
        IN  /\ body' = Serving(body, h, b, [raw |-> "", doc |-> EmptyData])
            /\ data' = Serving(data, h, d, EmptyData)
            /\ IF read.err # NoError
               THEN /\ calls' = Serving(calls, h, <<>>, <<>>)
                    /\ updatableIncident' = Serving(updatableIncident, h, <<>>, <<>>)
                    /\ resp' = Serving(resp, h,
                                       <<sendJSONResponse(400, read.err)>>, <<>>)
                    /\ pc' = Serving(pc, h, "done", "idle")
               ELSE \E q \in QueryOutcomes(getParams) :
                    LET query == [op |-> "GetIncidents", arg |-> getParams,
                                  sysID |-> "", err |-> q.err,
                                  result |-> q.result]
                        step == onAlertGroup(d, q.result, q.err)
                    IN  /\ calls' = Serving(calls, h, <<query>>, <<>>)
                        /\ updatableIncident' =
                              Serving(updatableIncident, h,
                                      step.updatableIncident, <<>>)
                        /\ resp' = Serving(resp, h,
                                      IF step.next = "return"
                                      THEN <<webhookResponse(step.err)>>
                                      ELSE <<>>,
                                      <<>>)
                        /\ pc' = Serving(pc, h,
                                      IF step.next = "return" THEN "done"
                                      ELSE step.next,
                                      "idle")
    /\ UNCHANGED <<config, noUpdateStates, incidentUpdateFields, tickets, origin,
                   applied>>

Webhook(h) ==
    /\ served < MaxRequests
    /\ HandleRequest(h)

(***************************************************************************)
(* The remote call a branch issues, its effect on the incident table, and  *)
(* the response webhook() writes when the branch returns.                  *)
(***************************************************************************)
\* the effect on the incident table of call, made by h, returning err
Store(h, call, err) ==
    IF err # NoError
    THEN UNCHANGED <<tickets, origin>>
    ELSE IF call.op = "CreateIncident"
    THEN LET t == CreateIncident(call.arg)
         IN  /\ tickets' = Append(tickets, t)
             /\ origin' = Append(origin,
                              [key |-> getGroupKey(data[h]),
                               stayed |-> Updatable(t),
                               kept |-> Holds(t, getGroupKey(data[h]))])
    ELSE LET i == IndexOf(call.sysID)
             t == UpdateIncident(tickets[i], call.arg)
         IN  /\ tickets' = [tickets EXCEPT ![i] = t]
             /\ origin' = [origin EXCEPT
                              ![i].stayed = @ /\ Updatable(t),
                              ![i].kept = @ /\ Holds(t, origin[i].key)]

\* the record of call in the log of the calls of a request
Returned(call, err) ==
    [op |-> call.op, arg |-> call.arg, sysID |-> call.sysID,
     err |-> err, result |-> <<>>]

\* variant: a call that returned an error is made again
RemoteRetries(h, call, err) ==
    /\ calls' = [calls EXCEPT ![h] = Append(@, Returned(call, err))]
    /\ IF err # NoError
       THEN UNCHANGED <<resp, pc>>
       ELSE /\ resp' = [resp EXCEPT ![h] = <<webhookResponse(err)>>]
            /\ pc' = [pc EXCEPT ![h] = "done"]
    /\ Store(h, call, err)

Remote(h, call, err) ==
    /\ calls' = [calls EXCEPT ![h] = Append(@, Returned(call, err))]
    /\ resp' = [resp EXCEPT ![h] = <<webhookResponse(err)>>]
    /\ pc' = [pc EXCEPT ![h] = "done"]
    /\ Store(h, call, err)

\* onFiringGroup and the rest of webhook()
OnFiringGroup(h) ==
    /\ pc[h] = "onFiringGroup"
    /\ LET call == onFiringGroup(data[h], updatableIncident[h])
       IN  \E err \in {NoError} \cup RemoteErrors :
            /\ (err = NoError /\ call.op = "CreateIncident")
                  => Len(tickets) < MaxTickets
            /\ Remote(h, call, err)
    /\ config' = alertGroupToIncidentConfig(data[h])
    /\ UNCHANGED <<noUpdateStates, incidentUpdateFields, served,
                   body, data, updatableIncident, applied>>

\* onResolvedGroup and the rest of webhook()
OnResolvedGroup(h) ==
    /\ pc[h] = "onResolvedGroup"
    /\ LET call == onResolvedGroup(data[h], updatableIncident[h])
       IN  IF call.op = "none"
           THEN /\ resp' = [resp EXCEPT ![h] = <<webhookResponse(NoError)>>]
                /\ pc' = [pc EXCEPT ![h] = "done"]
                /\ UNCHANGED <<calls, tickets, origin>>
           ELSE \E err \in {NoError} \cup RemoteErrors : Remote(h, call, err)
    /\ config' = alertGroupToIncidentConfig(data[h])
    /\ UNCHANGED <<noUpdateStates, incidentUpdateFields, served,
                   body, data, updatableIncident, applied>>

(***************************************************************************)
(* Another actor of the ticketing system (a user, a business rule) moves   *)
(* an incident to another lifecycle state.                                 *)
(***************************************************************************)
ActorSetState(i, s) ==
    /\ i \in 1..Len(tickets)
    /\ tickets[i]["state"] # s
    /\ tickets' = [tickets EXCEPT ![i] = ("state" :> s) @@ @]
    /\ origin' = [origin EXCEPT ![i].stayed = @ /\ s \notin noUpdateStates]
    /\ UNCHANGED <<config, noUpdateStates, incidentUpdateFields, served,
                   pc, body, data, updatableIncident, calls, resp, applied>>

Next ==
    \/ \E h \in Handlers : Webhook(h)
    \/ \E h \in Handlers : OnFiringGroup(h)
    \/ \E h \in Handlers : OnResolvedGroup(h)
    \/ \E i \in 1..MaxTickets, s \in TicketStates : ActorSetState(i, s)

Spec == Init /\ [][Next]_vars

(***************************************************************************)
(* Requests that do not overlap: a request is accepted only when no other  *)
(* request is being served.                                                *)
(***************************************************************************)
WebhookSeq(h) ==
    /\ \A g \in Handlers : Idle(g)
    /\ served < MaxSeqRequests
    /\ HandleRequest(h)

NextSeq ==
    \/ \E h \in Handlers : WebhookSeq(h)
    \/ \E h \in Handlers : OnFiringGroup(h)
    \/ \E h \in Handlers : OnResolvedGroup(h)
    \/ \E i \in 1..MaxTickets, s \in TicketStates : ActorSetState(i, s)

SpecSeq == InitSeq /\ [][NextSeq]_vars

(***************************************************************************)
(* The functions of main.go applied on their own, under one of the         *)
(* configurations, to arguments drawn from bounded sets.                   *)
(***************************************************************************)
\* names and values of the fields of the incidents given to the functions
FieldNames == {"caller_id", "comments", "state", "impact"}

FieldValues == {"", "x"}

\* every Incident over these names and values, Incident{} included
Incidents == UNION {[names -> FieldValues] : names \in SUBSET FieldNames}

InitPure == InitSeq

\* incidentUpdateParam := filterForUpdate(incident)
FilterForUpdate ==
    /\ \E incident \in Incidents :
          /\ fn' = "filterForUpdate"
          /\ arg' = <<incident>>
          /\ ret' = filterForUpdate(incident)
    /\ UNCHANGED <<config, noUpdateStates, incidentUpdateFields, workflow>>

\* the incidents validateIncident is applied to: impact and urgency absent,
\* nil, empty, integer texts or other texts, and a field it does not check
ValidatedValues == {Nil, "", "2", "-1", "<no value>", "2.5"}

ValidatedIncidents ==
    UNION {[names -> ValidatedValues] : names \in SUBSET {"impact", "urgency"}}

\* errs = validateIncident(incident)
ValidateIncident ==
    /\ \E incident \in ValidatedIncidents, others \in {{}, {"priority"}} :
          /\ fn' = "validateIncident"
          /\ arg' = <<incident @@ [k \in others |-> "high"]>>
          /\ ret' = validateIncident(arg'[1])
    /\ UNCHANGED <<config, noUpdateStates, incidentUpdateFields, workflow>>

\* the groupLabels object of a payload: name/value members in payload order
LabelValues == {"A", "B", "A} {client B"}

PayloadLabels ==
    {<<>>}
    \cup {<<[Name |-> n, Value |-> v]>> :
             n \in Range(LabelOrder), v \in LabelValues}
    \cup {members \in
             {<<[Name |-> n1, Value |-> v1], [Name |-> n2, Value |-> v2]>> :
                 n1 \in Range(LabelOrder), n2 \in Range(LabelOrder),
                 v1 \in LabelValues, v2 \in LabelValues} :
             members[1].Name # members[2].Name}

Payloads ==
    [status : {"firing", "resolved"}, receiver : {"r1", "r2"},
     groupLabels : PayloadLabels]

\* json Decode of a payload into template.Data: groupLabels becomes a map
decodeData(payload) ==
    [Status |-> payload.status,
     Receiver |-> payload.receiver,
     GroupLabels |->
        [n \in {payload.groupLabels[i].Name : i \in DOMAIN payload.groupLabels}
            |-> LET i == CHOOSE j \in DOMAIN payload.groupLabels :
                            payload.groupLabels[j].Name = n
                IN  payload.groupLabels[i].Value]]

\* getGroupKey(data) for the data of two payloads, the first two that a
\* started process receives
GetGroupKey ==
    /\ fn = ""
    /\ \E p1 \in Payloads, p2 \in Payloads :
          /\ fn' = "getGroupKey"
          /\ arg' = <<p1, p2>>
          /\ ret' = <<getGroupKey(decodeData(p1)), getGroupKey(decodeData(p2))>>
    /\ UNCHANGED <<config, noUpdateStates, incidentUpdateFields, workflow>>

\* the status codes of the responses ServiceNow gives
StatusCodes == {200, 201, 399, 400, 403, 404, 500, 503}

\* a response body: JSON holding a result, a text that is not JSON, or a
\* stream that breaks while it is read; NoBody is the nil byte slice
NoBody == [kind |-> "nil", result |-> <<>>]

ResponseBodies ==
    { [kind |-> "json", result |-> <<Existing(1, KeyA, NewState)>>],
      [kind |-> "text", result |-> <<>>],
      [kind |-> "broken", result |-> <<>>] }

\* what client.Do(req) gives: a transport error, or a response
RoundTrips ==
    {[err |-> "dial tcp: connection refused", StatusCode |-> 0,
      Body |-> NoBody]}
    \cup [err : {NoError}, StatusCode : StatusCodes, Body : ResponseBodies]

\* variant: only the codes above 400 are errors
doRequestAbove400(roundTrip) ==
    IF roundTrip.err # NoError
    THEN [body |-> NoBody, err |-> roundTrip.err]
    ELSE IF roundTrip.StatusCode > 400
    THEN [body |-> NoBody,
          err |-> "ServiceNow returned the HTTP error code: "
                  \o ToString(roundTrip.StatusCode)]
    ELSE IF roundTrip.Body.kind = "broken"
    THEN [body |-> NoBody, err |-> "unexpected EOF"]
    ELSE [body |-> roundTrip.Body, err |-> NoError]

\* doRequest: the response body, or the error of the transport, of a status
\* code >= 400, or of reading the body
doRequest(roundTrip) ==
    IF roundTrip.err # NoError
    THEN [body |-> NoBody, err |-> roundTrip.err]
    ELSE IF roundTrip.StatusCode >= 400
    THEN [body |-> NoBody,
          err |-> "ServiceNow returned the HTTP error code: "
                  \o ToString(roundTrip.StatusCode)]
    ELSE IF roundTrip.Body.kind = "broken"
    THEN [body |-> NoBody, err |-> "unexpected EOF"]
    ELSE [body |-> roundTrip.Body, err |-> NoError]

\* CreateIncident, GetIncidents and UpdateIncident after the request is
\* built: doRequest, then json.Unmarshal of the body and its result
clientOperation(roundTrip) ==
    LET response == doRequest(roundTrip)
    IN  IF response.err # NoError
        THEN [result |-> <<>>, err |-> response.err]
        ELSE IF response.body.kind # "json"
        THEN [result |-> <<>>,
              err |-> "invalid character 'o' in literal null (expecting 'u')"]
        ELSE [result |-> response.body.result, err |-> NoError]

\* the answer of webhook() to a firing group once operation has returned
\* outcome, none while the workflow goes on to its second call
webhookAnswer(operation, outcome) ==
    IF operation = "GetIncidents"
    THEN LET d == [Status |-> "firing", GroupLabels |-> ("alertname" :> "A")]
             step == onAlertGroup(d, outcome.result, outcome.err)
         IN  IF step.next = "return" THEN <<webhookResponse(step.err)>>
             ELSE <<>>
    ELSE <<webhookResponse(outcome.err)>>

\* one client operation against one behaviour of the HTTP round trip
DoRequest ==
    /\ \E operation \in {"CreateIncident", "GetIncidents", "UpdateIncident"},
          roundTrip \in RoundTrips :
          LET outcome == clientOperation(roundTrip)
          IN  /\ fn' = "doRequest"
              /\ arg' = <<operation, roundTrip>>
              /\ ret' = [result |-> outcome.result, err |-> outcome.err,
                         answer |-> webhookAnswer(operation, outcome)]
    /\ UNCHANGED <<config, noUpdateStates, incidentUpdateFields, workflow>>

\* the records filterUpdatableIncidents is applied to: up to three of four
\* tickets, repetitions included
FilteredTickets ==
    { Existing(1, KeyA, "1"), Existing(1, KeyA, "6"),
      Existing(2, KeyA, "7"), Existing(2, KeyA, "1") }

FilteredLists ==
    {<<>>}
    \cup {<<t1>> : t1 \in FilteredTickets}
    \cup {<<t1, t2>> : t1 \in FilteredTickets, t2 \in FilteredTickets}
    \cup {<<t1, t2, t3>> : t1 \in FilteredTickets, t2 \in FilteredTickets,
                           t3 \in FilteredTickets}

\* updatableIncidents := filterUpdatableIncidents(existingIncidents)
FilterUpdatableIncidents ==
    /\ \E incidents \in FilteredLists :
          /\ fn' = "filterUpdatableIncidents"
          /\ arg' = <<incidents>>
          /\ ret' = filterUpdatableIncidents(incidents)
    /\ UNCHANGED <<config, noUpdateStates, incidentUpdateFields, workflow>>

\* an incident without one of its fields
Without(incident, key) ==
    [k \in DOMAIN incident \ {key} |-> incident[k]]

\* the records a query may return: whole, or short of a string sys_id or
\* number
ReturnedTickets ==
    { Existing(1, KeyA, "1"),
      Existing(2, KeyA, "6"),
      Without(Existing(1, KeyA, "1"), "sys_id"),
      Without(Existing(1, KeyA, "1"), "number"),
      [Existing(1, KeyA, "1") EXCEPT !["sys_id"] = Nil] }

ReturnedLists ==
    {<<>>}
    \cup {<<t1>> : t1 \in ReturnedTickets}
    \cup {<<t1, t2>> : t1 \in ReturnedTickets, t2 \in ReturnedTickets}

\* i[key].(string): the run-time panic of the type assertion when the field
\* is absent or nil, none when it holds a string
assertString(incident, key) ==
    IF key \in DOMAIN incident /\ incident[key] # Nil
    THEN NoError
    ELSE "interface conversion: interface {} is nil, not string"

\* webhook() for data d once GetIncidents has returned existingIncidents
\* without error, the create or update being accepted: the panic of GetNumber
\* or GetSysID on the selected ticket, if any, and the responses written; a
\* panic ends the handler, and the server closes the connection
webhookServed(d, existingIncidents) ==
    LET updatableIncidents == filterUpdatableIncidents(existingIncidents)
        step == onAlertGroup(d, existingIncidents, NoError)
        warned == IF Len(updatableIncidents) > 1
                  THEN assertString(updatableIncidents[1], "number")
                  ELSE NoError
        number == IF step.updatableIncident # <<>>
                  THEN assertString(step.updatableIncident[1], "number")
                  ELSE NoError
        sysID == IF step.updatableIncident # <<>>
                 THEN assertString(step.updatableIncident[1], "sys_id")
                 ELSE NoError
    IN  IF warned # NoError
        THEN [panic |-> warned, answer |-> <<>>]
        ELSE IF step.next = "return"
        THEN [panic |-> NoError, answer |-> <<webhookResponse(step.err)>>]
        ELSE IF number # NoError
        THEN [panic |-> number, answer |-> <<>>]
        ELSE IF sysID # NoError
        THEN [panic |-> sysID, answer |-> <<>>]
        ELSE [panic |-> NoError, answer |-> <<webhookResponse(NoError)>>]

\* one webhook call against one answer of the query
WebhookServed ==
    /\ \E d \in Docs, existingIncidents \in ReturnedLists :
          /\ fn' = "webhook"
          /\ arg' = <<d, existingIncidents>>
          /\ ret' = webhookServed(d, existingIncidents)
    /\ UNCHANGED <<config, noUpdateStates, incidentUpdateFields, workflow>>

NextPure ==
    \/ FilterForUpdate
    \/ ValidateIncident
    \/ DoRequest
    \/ FilterUpdatableIncidents
    \/ WebhookServed

SpecPure == InitPure /\ [][NextPure]_vars

\* the group key of payloads, computed on its own
NextKey ==
    \/ GetGroupKey

SpecKey == InitPure /\ [][NextKey]_vars

(***************************************************************************)
(* Start of the process: main() loads the configuration content and then   *)
(* builds the ServiceNow client from it.                                   *)
(***************************************************************************)

\* Config{}: the zero value of the configuration
ZeroConfig ==
    [ServiceNow |-> [InstanceName |-> "", UserName |-> "", Password |-> ""],
     Workflow |-> [IncidentGroupKeyField |-> "",
                   NoUpdateStates |-> <<>>,
                   IncidentUpdateFields |-> <<>>],
     DefaultIncident |-> EmptyIncident]

\* a YAML mapping entry that may be absent: no entry, or key with a value
Optional(key, values) == {<<>>} \cup {key :> v : v \in values}

\* the service_now sections: complete, or short of one mandatory entry
ServiceNowSections ==
    { [instance_name |-> "instanceName", user_name |-> "userName",
       password |-> "password"],
      [instance_name |-> "dev", user_name |-> "ab", password |-> "???"],
      [user_name |-> "userName", password |-> "password"],
      [instance_name |-> "instanceName", password |-> "password"],
      [instance_name |-> "instanceName", user_name |-> "userName"] }

\* the workflow sections; no_update_states is a YAML list of integers
WorkflowSections ==
    {key @@ states @@ fields :
        key \in Optional("incident_group_key_field", {GroupKeyField}),
        states \in Optional("no_update_states", {<<>>, <<6>>, <<6, 7>>}),
        fields \in Optional("incident_update_fields",
                            {<<"comments">>, <<"comments", "state">>})}

\* the YAML documents: every section is optional
Documents ==
    {sn @@ wf @@ di :
        sn \in Optional("service_now", ServiceNowSections),
        wf \in Optional("workflow", WorkflowSections),
        di \in Optional("default_incident", {("impact" :> "2")})}

\* the configuration contents: the documents, and a text that is not YAML
Contents ==
    [wellFormed : {TRUE}, document : Documents]
    \cup {[wellFormed |-> FALSE, document |-> <<>>]}

\* the value of key in a YAML mapping, zero when the key is absent
Entry(mapping, key, zero) ==
    IF key \in DOMAIN mapping THEN mapping[key] ELSE zero

\* yaml.Unmarshal(configData, &config) into a zero Config: absent keys keep
\* the zero value, an integer of no_update_states becomes a json.Number text
yamlUnmarshal(configData) ==
    IF ~configData.wellFormed
    THEN [config |-> ZeroConfig, err |-> "yaml: could not find expected ':'"]
    ELSE LET sn == Entry(configData.document, "service_now", <<>>)
             wf == Entry(configData.document, "workflow", <<>>)
             states == Entry(wf, "no_update_states", <<>>)
         IN  [config |->
                [ServiceNow |->
                    [InstanceName |-> Entry(sn, "instance_name", ""),
                     UserName |-> Entry(sn, "user_name", ""),
                     Password |-> Entry(sn, "password", "")],
                 Workflow |->
                    [IncidentGroupKeyField |->
                        Entry(wf, "incident_group_key_field", ""),
                     NoUpdateStates |->
                        [i \in 1..Len(states) |-> ToString(states[i])],
                     IncidentUpdateFields |->
                        Entry(wf, "incident_update_fields", <<>>)],
                 DefaultIncident |->
                    Entry(configData.document, "default_incident",
                          EmptyIncident)],
              err |-> NoError]

\* variant: the lookup sets are added to, not rebuilt
loadConfigContentKeepsLookups(configData, states, fields) ==
    LET parsed == yamlUnmarshal(configData)
    IN  IF parsed.err # NoError
        THEN [config |-> parsed.config, err |-> parsed.err,
              noUpdateStates |-> states, incidentUpdateFields |-> fields]
        ELSE [config |-> parsed.config, err |-> NoError,
              noUpdateStates |-> states \cup loadNoUpdateStates(parsed.config),
              incidentUpdateFields |->
                  fields \cup loadIncidentUpdateFields(parsed.config)]

\* loadConfigContent: the globals it leaves and the error it returns, states
\* and fields being the lookup sets at the call
loadConfigContent(configData, states, fields) ==
    LET parsed == yamlUnmarshal(configData)
    IN  IF parsed.err # NoError
        THEN [config |-> parsed.config, err |-> parsed.err,
              noUpdateStates |-> states, incidentUpdateFields |-> fields]
        ELSE [config |-> parsed.config, err |-> NoError,
              noUpdateStates |-> loadNoUpdateStates(parsed.config),
              incidentUpdateFields |-> loadIncidentUpdateFields(parsed.config)]

\* []byte(text) of the credential texts
Bytes(text) ==
    CASE text = "userName" -> <<117, 115, 101, 114, 78, 97, 109, 101>>
      [] text = "password" -> <<112, 97, 115, 115, 119, 111, 114, 100>>
      [] text = "ab" -> <<97, 98>>
      [] text = "???" -> <<63, 63, 63>>
      [] text = ":" -> <<58>>
      [] text = "" -> <<>>

\* the alphabet of base64.StdEncoding
encodeStd ==
    << "A", "B", "C", "D", "E", "F", "G", "H", "I", "J", "K", "L", "M",
       "N", "O", "P", "Q", "R", "S", "T", "U", "V", "W", "X", "Y", "Z",
       "a", "b", "c", "d", "e", "f", "g", "h", "i", "j", "k", "l", "m",
       "n", "o", "p", "q", "r", "s", "t", "u", "v", "w", "x", "y", "z",
       "0", "1", "2", "3", "4", "5", "6", "7", "8", "9", "+", "/" >>

\* the alphabet of base64.URLEncoding
encodeURL == [encodeStd EXCEPT ![63] = "-", ![64] = "_"]

\* (*Encoding).EncodeToString with padding: three bytes give four characters
RECURSIVE EncodeToString(_, _)
EncodeToString(encode, src) ==
    LET val == (IF Len(src) > 0 THEN src[1] * 65536 ELSE 0)
               + (IF Len(src) > 1 THEN src[2] * 256 ELSE 0)
               + (IF Len(src) > 2 THEN src[3] ELSE 0)
        char(shift) == encode[((val \div shift) % 64) + 1]
    IN  IF Len(src) = 0 THEN ""
        ELSE IF Len(src) = 1
        THEN char(262144) \o char(4096) \o "=="
        ELSE IF Len(src) = 2
        THEN char(262144) \o char(4096) \o char(64) \o "="
        ELSE char(262144) \o char(4096) \o char(64) \o char(1)
             \o EncodeToString(encode, SubSeq(src, 4, Len(src)))

\* variant: an empty password is accepted
NewServiceNowClientNoPassword(instanceName, userName, password) ==
    IF instanceName = ""
    THEN [client |-> <<>>, err |-> "Missing instanceName"]
    ELSE IF userName = ""
    THEN [client |-> <<>>, err |-> "Missing userName"]
    ELSE [client |->
            <<[baseURL |-> "https://" \o instanceName \o ".service-now.com",
               authHeader |->
                  "Basic " \o EncodeToString(encodeURL,
                      Bytes(userName) \o Bytes(":") \o Bytes(password))]>>,
          err |-> NoError]

\* NewServiceNowClient: the client (none on error) and the error
NewServiceNowClient(instanceName, userName, password) ==
    IF instanceName = ""
    THEN [client |-> <<>>, err |-> "Missing instanceName"]
    ELSE IF userName = ""
    THEN [client |-> <<>>, err |-> "Missing userName"]
    ELSE IF password = ""
    THEN [client |-> <<>>, err |-> "Missing password"]
    ELSE [client |->
            <<[baseURL |-> "https://" \o instanceName \o ".service-now.com",
               authHeader |->
                  "Basic " \o EncodeToString(encodeURL,
                      Bytes(userName) \o Bytes(":") \o Bytes(password))]>>,
          err |-> NoError]

\* before main() has loaded anything: zero configuration, nil lookup maps
InitStart ==
    /\ config = ZeroConfig
    /\ noUpdateStates = {}
    /\ incidentUpdateFields = {}
    /\ tickets = <<>>
    /\ served = 0
    /\ origin = <<>>
    /\ pc = [h \in Handlers |-> "idle"]
    /\ body = [h \in Handlers |-> [raw |-> "", doc |-> EmptyData]]
    /\ data = [h \in Handlers |-> EmptyData]
    /\ updatableIncident = [h \in Handlers |-> <<>>]
    /\ calls = [h \in Handlers |-> <<>>]
    /\ resp = [h \in Handlers |-> <<>>]
    /\ fn = ""
    /\ arg = <<>>
    /\ ret = <<>>

\* config, err := loadConfigContent(configData); the lookup sets at the
\* call are recorded with the argument
LoadConfigContent ==
    /\ \E configData \in Contents :
          LET loaded == loadConfigContent(configData, noUpdateStates,
                                          incidentUpdateFields)
          IN  /\ config' = loaded.config
              /\ noUpdateStates' = loaded.noUpdateStates
              /\ incidentUpdateFields' = loaded.incidentUpdateFields
              /\ fn' = "loadConfigContent"
              /\ arg' = <<configData, noUpdateStates, incidentUpdateFields>>
              /\ ret' = [config |-> loaded.config, err |-> loaded.err]
    /\ UNCHANGED workflow

\* loadSnClient: the client built from the loaded configuration
LoadSnClient ==
    /\ fn' = "NewServiceNowClient"
    /\ arg' = <<config.ServiceNow.InstanceName, config.ServiceNow.UserName,
                config.ServiceNow.Password>>
    /\ ret' = NewServiceNowClient(config.ServiceNow.InstanceName,
                                  config.ServiceNow.UserName,
                                  config.ServiceNow.Password)
    /\ UNCHANGED <<config, noUpdateStates, incidentUpdateFields, workflow>>

NextStart ==
    \/ LoadConfigContent
    \/ LoadSnClient

SpecStart == InitStart /\ [][NextStart]_vars

(***************************************************************************)
(* Vocabulary of the properties.                                           *)
(***************************************************************************)
\* the request handler h is serving, or has served last, parsed
Parsed(h) == pc[h] # "idle" /\ body[h].raw = "json"

\* its query returned without error
QueryOK(h) ==
    /\ Len(calls[h]) >= 1
    /\ calls[h][1].op = "GetIncidents"
    /\ calls[h][1].err = NoError

Found(h) == calls[h][1].result

FoundUpdatable(h) ==
    SelectSeq(Found(h), LAMBDA t : t["state"] \notin noUpdateStates)

CallsOf(h, op) == {n \in 1..Len(calls[h]) : calls[h][n].op = op}

\* keys of the candidate incident of any alert group
CandidateKeys ==
    {"caller_id", config.Workflow.IncidentGroupKeyField}
    \cup DOMAIN config.DefaultIncident

Success == <<sendJSONResponse(200, "Success")>>

\* C1: a firing group whose query succeeds and returns no ticket at all
\* leads to exactly one create, given the full candidate incident (caller_id,
\* the group-key field and every default_incident field, whatever the update
\* whitelist holds), and to no update.
C1_FiringNoTicketCreatesFull ==
    \A h \in Handlers :
        (Parsed(h) /\ body[h].doc.Status = "firing" /\ QueryOK(h)
            /\ Found(h) = <<>>)
        => /\ CallsOf(h, "UpdateIncident") = {}
           /\ Cardinality(CallsOf(h, "CreateIncident")) <= 1
           /\ pc[h] = "done" =>
                /\ Len(calls[h]) = 2
                /\ calls[h][2].op = "CreateIncident"
                /\ DOMAIN calls[h][2].arg = CandidateKeys
                /\ calls[h][2].arg = alertGroupToIncident(body[h].doc)

C1_Witness ==
    \E h \in Handlers :
        /\ pc[h] = "done" /\ Parsed(h) /\ body[h].doc.Status = "firing"
        /\ QueryOK(h) /\ Found(h) = <<>>
        /\ CallsOf(h, "CreateIncident") = {2}
        /\ "impact" \in DOMAIN calls[h][2].arg
        /\ "impact" \notin incidentUpdateFields

\* C2: a firing group whose query returns at least one ticket in an updatable
\* state leads to exactly one update, whose payload has exactly the candidate
\* keys that are in incident_update_fields, with the candidate's values, and
\* to no create.
C2_FiringUpdatableUpdatesFiltered ==
    \A h \in Handlers :
        (Parsed(h) /\ body[h].doc.Status = "firing" /\ QueryOK(h)
            /\ FoundUpdatable(h) # <<>>)
        => /\ CallsOf(h, "CreateIncident") = {}
           /\ Cardinality(CallsOf(h, "UpdateIncident")) <= 1
           /\ pc[h] = "done" =>
                /\ Len(calls[h]) = 2
                /\ calls[h][2].op = "UpdateIncident"
                /\ DOMAIN calls[h][2].arg = CandidateKeys \cap incidentUpdateFields
                /\ \A k \in DOMAIN calls[h][2].arg :
                      calls[h][2].arg[k] = alertGroupToIncident(body[h].doc)[k]

C2_Witness ==
    \E h \in Handlers :
        /\ pc[h] = "done" /\ Parsed(h) /\ body[h].doc.Status = "firing"
        /\ QueryOK(h) /\ FoundUpdatable(h) # <<>>
        /\ CallsOf(h, "UpdateIncident") = {2}
        /\ DOMAIN calls[h][2].arg = {"comments"}
        /\ DOMAIN calls[h][2].arg # CandidateKeys

\* C3: a firing group whose query returns only tickets in no_update_states
\* is handled as if no ticket existed: one create with the full candidate
\* incident, no update, so that no terminal ticket is touched.
C3_FiringOnlyTerminalCreates ==
    \A h \in Handlers :
        (Parsed(h) /\ body[h].doc.Status = "firing" /\ QueryOK(h)
            /\ Found(h) # <<>> /\ FoundUpdatable(h) = <<>>)
        => /\ CallsOf(h, "UpdateIncident") = {}
           /\ pc[h] = "done" =>
                /\ CallsOf(h, "CreateIncident") = {2}
                /\ Len(calls[h]) = 2
                /\ calls[h][2].arg = alertGroupToIncident(body[h].doc)
                /\ CandidateKeys \subseteq DOMAIN calls[h][2].arg

C3_Witness ==
    \E h \in Handlers :
        /\ pc[h] = "done" /\ Parsed(h) /\ body[h].doc.Status = "firing"
        /\ QueryOK(h) /\ Found(h) # <<>> /\ FoundUpdatable(h) = <<>>
        /\ CallsOf(h, "CreateIncident") = {2}
        /\ calls[h][2].err = NoError

\* C4: a resolved group whose query returns no updatable ticket (no ticket,
\* or only tickets in no_update_states) calls neither create nor update and
\* is answered 200 "Success".
C4_ResolvedNoUpdatableNoCall ==
    \A h \in Handlers :
        (Parsed(h) /\ body[h].doc.Status = "resolved" /\ QueryOK(h)
            /\ FoundUpdatable(h) = <<>>)
        => /\ Len(calls[h]) = 1
           /\ pc[h] = "done" => resp[h] = Success

C4_Witness ==
    \E h \in Handlers :
        /\ pc[h] = "done" /\ Parsed(h) /\ body[h].doc.Status = "resolved"
        /\ QueryOK(h) /\ Found(h) # <<>> /\ FoundUpdatable(h) = <<>>
        /\ resp[h] = Success

\* C5: a resolved group whose query returns at least one updatable ticket
\* leads to exactly one update, of the first updatable ticket of the query
\* result, with the candidate filtered by incident_update_fields, and to no
\* create.
C5_ResolvedUpdatableUpdates ==
    \A h \in Handlers :
        (Parsed(h) /\ body[h].doc.Status = "resolved" /\ QueryOK(h)
            /\ FoundUpdatable(h) # <<>>)
        => /\ CallsOf(h, "CreateIncident") = {}
           /\ Cardinality(CallsOf(h, "UpdateIncident")) <= 1
           /\ pc[h] = "done" =>
                /\ CallsOf(h, "UpdateIncident") = {2}
                /\ Len(calls[h]) = 2
                /\ calls[h][2].sysID = FoundUpdatable(h)[1]["sys_id"]
                /\ DOMAIN calls[h][2].arg = CandidateKeys \cap incidentUpdateFields
                /\ \A k \in DOMAIN calls[h][2].arg :
                      calls[h][2].arg[k] = alertGroupToIncident(body[h].doc)[k]

C5_Witness ==
    \E h \in Handlers :
        /\ pc[h] = "done" /\ Parsed(h) /\ body[h].doc.Status = "resolved"
        /\ QueryOK(h) /\ FoundUpdatable(h) # <<>>
        /\ CallsOf(h, "UpdateIncident") = {2}
        /\ calls[h][2].arg = ("comments" :> "resolved")
        /\ Found(h)[1]["state"] \in noUpdateStates

\* a step in which handler h gets the answer of its create or update call
Answered(h) ==
    /\ pc[h] \in {"onFiringGroup", "onResolvedGroup"}
    /\ pc'[h] = "done"
    /\ Len(calls'[h]) = 2

\* C6: the workflow never changes a ticket's lifecycle state, whatever the
\* configuration: an update issued by the workflow carries no value for the
\* state field and leaves the state of every ticket as it was.
C6_UpdateNeverChangesState ==
    [][\A h \in Handlers :
          (/\ Answered(h)
           /\ calls'[h][2].op = "UpdateIncident"
           /\ calls'[h][2].err = NoError)
          => /\ "state" \notin DOMAIN calls'[h][2].arg
             /\ \A i \in 1..Len(tickets) :
                   tickets'[i]["state"] = tickets[i]["state"]]_vars

\* first ticket created for group key k, 0 if none
FirstFor(k) ==
    IF \E i \in 1..Len(origin) : origin[i].key = k
    THEN CHOOSE i \in 1..Len(origin) :
            /\ origin[i].key = k
            /\ \A j \in 1..(i - 1) : origin[j].key # k
    ELSE 0

\* C7: in a sequence of non-overlapping firing calls with the same
\* groupLabels, once the first call has created a ticket, every later call
\* made while that ticket has stayed updatable updates that ticket and
\* creates none.
C7_LaterCallsUpdateFirstTicket ==
    [][\A h \in Handlers :
          LET i == FirstFor(getGroupKey(data[h]))
          IN  (/\ Answered(h)
               /\ pc[h] = "onFiringGroup"
               /\ calls'[h][2].err = NoError
               /\ i # 0
               /\ origin[i].stayed)
              => /\ calls'[h][2].op = "UpdateIncident"
                 /\ calls'[h][2].sysID = tickets[i]["sys_id"]
                 /\ Len(tickets') = Len(tickets)]_vars

NoUpdatableFor(k) ==
    \A i \in 1..Len(tickets) : ~(Updatable(tickets[i]) /\ Holds(tickets[i], k))

\* handler h has got, for a firing group, an empty query result and then the
\* record of the ticket it created
CreatedAfterEmptyQuery(h) ==
    /\ pc[h] = "done" /\ Parsed(h) /\ body[h].doc.Status = "firing"
    /\ QueryOK(h) /\ Found(h) = <<>>
    /\ Len(calls[h]) = 2
    /\ calls[h][2].op = "CreateIncident"
    /\ calls[h][2].err = NoError

\* C9: nothing gives at most one ticket per group key under concurrency.
\* While one firing call stands between its query, which found no updatable
\* ticket, and its create, a second call for the same group key is free to
\* run its own query and to find no updatable ticket either (no lock, no
\* local state excludes it); and when two such calls have both created, the
\* table holds two tickets created for that one group key.
C9_ConcurrentCallsBothCreate ==
    /\ \A h1 \in Handlers :
          (/\ pc[h1] = "onFiringGroup"
           /\ updatableIncident[h1] = <<>>
           /\ \E g \in Handlers \ {h1} : pc[g] \in {"idle", "done"}
           /\ served < MaxRequests
           /\ NoUpdatableFor(getGroupKey(data[h1])))
          => \E h2 \in Handlers \ {h1} :
                ENABLED (/\ Webhook(h2)
                         /\ pc'[h2] = "onFiringGroup"
                         /\ updatableIncident'[h2] = <<>>
                         /\ getGroupKey(data'[h2]) = getGroupKey(data[h1]))
    /\ \A h1, h2 \in Handlers :
          (/\ h1 # h2
           /\ CreatedAfterEmptyQuery(h1)
           /\ CreatedAfterEmptyQuery(h2)
           /\ getGroupKey(data[h1]) = getGroupKey(data[h2]))
          => \E i, j \in 1..Len(tickets) :
                /\ i # j
                /\ origin[i].key = getGroupKey(data[h1])
                /\ origin[j].key = getGroupKey(data[h1])

\* both calls found an empty table and two updatable tickets hold the key
C9_Witness ==
    \E h1, h2 \in Handlers :
        /\ h1 # h2
        /\ CreatedAfterEmptyQuery(h1)
        /\ CreatedAfterEmptyQuery(h2)
        /\ getGroupKey(data[h1]) = getGroupKey(data[h2])
        /\ Len(tickets) = 2
        /\ \A i \in 1..2 : /\ Updatable(tickets[i])
                           /\ Holds(tickets[i], getGroupKey(data[h1]))
                           /\ origin[i].key = getGroupKey(data[h1])

\* text of the decoding error of a malformed body
DecodeErrorText(raw) == IF raw = "" THEN "EOF" ELSE "unexpected EOF"

\* C10: a request whose body does not parse as an alert-group payload is
\* answered 400 with the parse error text as Message ("EOF" for an empty
\* body), and makes no call to the ticketing client.
C10_BadRequestNoRemoteCall ==
    \A h \in Handlers :
        (pc[h] # "idle" /\ body[h].raw # "json")
        => /\ pc[h] = "done"
           /\ calls[h] = <<>>
           /\ resp[h] = <<[Code |-> 400,
                           Body |-> [Status |-> 400,
                                     Message |-> DecodeErrorText(body[h].raw)]]>>

C10_Witness ==
    \E h \in Handlers :
        /\ pc[h] = "done"
        /\ body[h].raw = ""
        /\ calls[h] = <<>>
        /\ resp[h] = <<[Code |-> 400, Body |-> [Status |-> 400, Message |-> "EOF"]]>>

\* the response with HTTP status code and message
Response(code, message) ==
    <<[Code |-> code, Body |-> [Status |-> code, Message |-> message]]>>

\* C11: when the create or update call of a webhook call returns an error,
\* the response is 500 with that error's text as Message, and the call to
\* the webhook makes no further remote call: the failed call is its last.
C11_DownstreamErrorAnswered500 ==
    \A h \in Handlers :
        (Len(calls[h]) >= 2 /\ calls[h][2].err # NoError)
        => /\ calls[h][2].op \in {"CreateIncident", "UpdateIncident"}
           /\ Len(calls[h]) = 2
           /\ pc[h] = "done"
           /\ resp[h] = Response(500, calls[h][2].err)

\* an update refused with 403, answered 500 with that text
C11_Witness ==
    \E h \in Handlers :
        /\ pc[h] = "done"
        /\ Len(calls[h]) = 2
        /\ calls[h][2].op = "UpdateIncident"
        /\ calls[h][2].err = "ServiceNow returned the HTTP error code: 403"
        /\ resp[h] = Response(500, "ServiceNow returned the HTTP error code: 403")

\* C12: when the query for existing tickets returns an error, the workflow
\* stops there: no create and no update follows, whatever the status and
\* whatever records came with the error, and the response is 500 with the
\* text of the query's error.
C12_QueryErrorAborts ==
    \A h \in Handlers :
        (Len(calls[h]) >= 1 /\ calls[h][1].err # NoError)
        => /\ calls[h][1].op = "GetIncidents"
           /\ Len(calls[h]) = 1
           /\ pc[h] = "done"
           /\ resp[h] = Response(500, calls[h][1].err)

\* a firing group whose failed query came with an updatable record
C12_Witness ==
    \E h \in Handlers :
        /\ pc[h] = "done" /\ Parsed(h) /\ body[h].doc.Status = "firing"
        /\ Len(calls[h]) = 1
        /\ calls[h][1].err \in RemoteErrors
        /\ FoundUpdatable(h) # <<>>
        /\ resp[h] = Response(500, calls[h][1].err)

\* C13: a payload that parses and whose status is neither exactly "firing"
\* nor exactly "resolved" (empty, or in another case) leads to no create and
\* no update, whatever the query returned, and is answered 200 "Success".
C13_UnknownStatusNoAction ==
    \A h \in Handlers :
        (Parsed(h) /\ body[h].doc.Status \notin {"firing", "resolved"}
            /\ QueryOK(h))
        => /\ Len(calls[h]) = 1
           /\ pc[h] = "done"
           /\ resp[h] = Success

\* status "Firing" with an updatable ticket found
C13_Witness ==
    \E h \in Handlers :
        /\ pc[h] = "done" /\ Parsed(h) /\ body[h].doc.Status = "Firing"
        /\ QueryOK(h) /\ FoundUpdatable(h) # <<>>
        /\ Len(calls[h]) = 1
        /\ resp[h] = Success

\* position in the query result of h of the first record whose state is not
\* in no_update_states, 0 if there is none
FirstUpdatableIndex(h) ==
    LET open == {i \in 1..Len(Found(h)) :
                    Found(h)[i]["state"] \notin noUpdateStates}
    IN  IF open = {} THEN 0
        ELSE CHOOSE i \in open : \A j \in open : i <= j

\* C14: when the query returns several tickets, the ticket updated is the
\* first one in the order of the query result whose state is not in
\* no_update_states; terminal tickets before it are skipped and the sys_id
\* of a ticket that is terminal in the query result is never given to update.
C14_FirstUpdatableInQueryOrder ==
    \A h \in Handlers :
        QueryOK(h) =>
            /\ \A n \in CallsOf(h, "UpdateIncident") :
                  /\ FirstUpdatableIndex(h) # 0
                  /\ calls[h][n].sysID =
                        Found(h)[FirstUpdatableIndex(h)]["sys_id"]
                  /\ \A i \in 1..Len(Found(h)) :
                        Found(h)[i]["state"] \in noUpdateStates
                        => calls[h][n].sysID # Found(h)[i]["sys_id"]
            /\ (/\ pc[h] = "done"
                /\ body[h].doc.Status \in {"firing", "resolved"}
                /\ FirstUpdatableIndex(h) # 0)
               => CallsOf(h, "UpdateIncident") = {2}

\* a terminal ticket first in the query result, the second one updated
C14_Witness ==
    \E h \in Handlers :
        /\ pc[h] = "done" /\ QueryOK(h)
        /\ Len(Found(h)) = 2
        /\ Found(h)[1]["state"] \in noUpdateStates
        /\ FirstUpdatableIndex(h) = 2
        /\ CallsOf(h, "UpdateIncident") = {2}
        /\ calls[h][2].sysID = Found(h)[2]["sys_id"]
        /\ calls[h][2].err = NoError

\* some remote call of the request of h returned an error
SomeCallFailed(h) == \E n \in 1..Len(calls[h]) : calls[h][n].err # NoError

\* C15: a webhook call is answered exactly once, when its remote calls have
\* returned: 400 iff the body did not parse, 500 iff its query, create or
\* update returned an error, 200 "Success" otherwise; Status in the JSON body
\* is the HTTP status code.
C15_ExactlyOneResponse ==
    \A h \in Handlers :
        /\ Len(resp[h]) = (IF pc[h] = "done" THEN 1 ELSE 0)
        /\ pc[h] = "done" =>
              LET r == resp[h][1]
              IN  /\ r.Body.Status = r.Code
                  /\ r.Code \in {200, 400, 500}
                  /\ r.Code = 400 <=> body[h].raw # "json"
                  /\ r.Code = 500 <=> SomeCallFailed(h)
                  /\ r.Code = 200 => r.Body.Message = "Success"

\* one call answered 500 after a failed create, the other 200
C15_Witness ==
    \E h1, h2 \in Handlers :
        /\ pc[h1] = "done" /\ pc[h2] = "done"
        /\ Len(calls[h1]) = 2
        /\ calls[h1][2].op = "CreateIncident"
        /\ calls[h1][2].err # NoError
        /\ resp[h1][1].Code = 500 /\ resp[h1][1].Body.Status = 500
        /\ Len(calls[h2]) = 2 /\ ~SomeCallFailed(h2)
        /\ resp[h2] = Success

\* C16: one webhook call makes at most one query and at most one create or
\* update in all (never both, never one again after a failure), and the
\* create or update comes only after the query of that call has returned
\* without error.
C16_AtMostOneQueryOneWrite ==
    \A h \in Handlers :
        /\ Cardinality(CallsOf(h, "GetIncidents")) <= 1
        /\ Cardinality(CallsOf(h, "CreateIncident")
                       \cup CallsOf(h, "UpdateIncident")) <= 1
        /\ \A n \in CallsOf(h, "CreateIncident") \cup CallsOf(h, "UpdateIncident") :
              /\ n = 2
              /\ calls[h][1].op = "GetIncidents"
              /\ calls[h][1].err = NoError

\* a call whose update failed and that made nothing else
C16_Witness ==
    \E h \in Handlers :
        /\ pc[h] = "done"
        /\ CallsOf(h, "GetIncidents") = {1}
        /\ CallsOf(h, "UpdateIncident") = {2}
        /\ CallsOf(h, "CreateIncident") = {}
        /\ calls[h][2].err # NoError

\* the incident_update_fields list of the configuration, as a set
Whitelist == Range(config.Workflow.IncidentUpdateFields)

\* C17: filterForUpdate returns a mapping whose keys are exactly the keys of
\* the candidate that are in incident_update_fields, each with the
\* candidate's value; a whitelisted name the candidate lacks is not added.
C17_FilterKeepsWhitelistedPresent ==
    fn = "filterForUpdate" =>
        /\ DOMAIN ret = DOMAIN arg[1] \cap Whitelist
        /\ \A field \in DOMAIN ret : ret[field] = arg[1][field]
        /\ \A field \in Whitelist \ DOMAIN arg[1] : field \notin DOMAIN ret

\* a candidate with one whitelisted field, one field not whitelisted, and a
\* whitelist naming fields the candidate lacks
C17_Witness ==
    /\ fn = "filterForUpdate"
    /\ Whitelist = {"state", "comments", "priority"}
    /\ arg[1] = ("caller_id" :> "x") @@ ("comments" :> "x") @@ ("impact" :> "")
    /\ ret = ("comments" :> "x")

\* C18: with an empty incident_update_fields list, filterForUpdate yields
\* the empty mapping for every candidate, and a firing or resolved call that
\* finds an updatable ticket still makes its update call, with an empty
\* payload.
C18_EmptyWhitelistEmptyUpdate ==
    config.Workflow.IncidentUpdateFields = <<>> =>
        /\ \A incident \in Incidents : filterForUpdate(incident) = EmptyIncident
        /\ \A h \in Handlers :
              (/\ pc[h] = "done" /\ Parsed(h)
               /\ body[h].doc.Status \in {"firing", "resolved"}
               /\ QueryOK(h)
               /\ FirstUpdatableIndex(h) # 0)
              => /\ Len(calls[h]) = 2
                 /\ calls[h][2].op = "UpdateIncident"
                 /\ calls[h][2].arg = EmptyIncident

\* a resolved group whose update with no field was accepted
C18_Witness ==
    \E h \in Handlers :
        /\ config.Workflow.IncidentUpdateFields = <<>>
        /\ pc[h] = "done" /\ Parsed(h) /\ body[h].doc.Status = "resolved"
        /\ QueryOK(h) /\ FirstUpdatableIndex(h) # 0
        /\ CallsOf(h, "UpdateIncident") = {2}
        /\ calls[h][2].arg = EmptyIncident
        /\ calls[h][2].err = NoError
        /\ resp[h] = Success

\* C19: for every configuration and alert group the candidate given to
\* create has the caller_id field and the group-key field, and the value of
\* the group-key field is the GroupKey the same call queried with.
C19_CreateCarriesQueriedGroupKey ==
    \A h \in Handlers :
        \A n \in CallsOf(h, "CreateIncident") :
            LET field == config.Workflow.IncidentGroupKeyField
            IN  /\ "caller_id" \in DOMAIN calls[h][n].arg
                /\ field \in DOMAIN calls[h][n].arg
                /\ calls[h][n].arg[field] = calls[h][1].arg[field]

FailingTexts == {"{{", "{{.Nope}}"}

\* the default_incident fields whose template fails
FailingKeys ==
    {key \in DOMAIN config.DefaultIncident :
        config.DefaultIncident[key] \in FailingTexts}

\* the value a candidate field is to hold for the alert group of handler h
Rendered(h, key) ==
    IF key \in DOMAIN config.DefaultIncident
    THEN IF config.DefaultIncident[key] \in FailingTexts THEN ""
         ELSE IF config.DefaultIncident[key] = "{{.Status}}"
              THEN body[h].doc.Status
              ELSE config.DefaultIncident[key]
    ELSE IF key = "caller_id" THEN config.ServiceNow.UserName
         ELSE calls[h][1].arg[config.Workflow.IncidentGroupKeyField]

\* the call that the query result and the status select: update of the first
\* updatable ticket, else create when firing, else nothing
DecisionTaken(h) ==
    IF FirstUpdatableIndex(h) # 0
    THEN Len(calls[h]) = 2 /\ calls[h][2].op = "UpdateIncident"
    ELSE IF body[h].doc.Status = "firing"
         THEN Len(calls[h]) = 2 /\ calls[h][2].op = "CreateIncident"
         ELSE Len(calls[h]) = 1

\* C21: a template failure on a field (syntax or execution error) is not
\* fatal: the call takes the create/update decision the query result selects,
\* answers 500 only when a remote call failed, the failing field is in the
\* candidate with the empty string, and every other field holds its own
\* rendered value.
C21_TemplateFailureNonFatal ==
    \A h \in Handlers :
        (/\ pc[h] = "done" /\ Parsed(h)
         /\ body[h].doc.Status \in {"firing", "resolved"}
         /\ QueryOK(h)
         /\ FailingKeys # {})
        => /\ DecisionTaken(h)
           /\ ~SomeCallFailed(h) => resp[h] = Success
           /\ \A n \in CallsOf(h, "CreateIncident") :
                 /\ FailingKeys \subseteq DOMAIN calls[h][n].arg
                 /\ DOMAIN calls[h][n].arg = CandidateKeys
           /\ \A n \in CallsOf(h, "UpdateIncident") :
                 DOMAIN calls[h][n].arg = CandidateKeys \cap incidentUpdateFields
           /\ \A n \in 2..Len(calls[h]) :
                 \A key \in DOMAIN calls[h][n].arg :
                     calls[h][n].arg[key] = Rendered(h, key)

\* a create whose candidate holds a field that failed to parse, a field that
\* failed to execute and a field that rendered, answered 200
C21_Witness ==
    \E h \in Handlers :
        /\ pc[h] = "done" /\ Parsed(h) /\ QueryOK(h)
        /\ CallsOf(h, "CreateIncident") = {2}
        /\ FailingKeys = {"comments", "short_description"}
        /\ config.DefaultIncident["comments"] = "{{"
        /\ config.DefaultIncident["short_description"] = "{{.Nope}}"
        /\ calls[h][2].arg["comments"] = ""
        /\ calls[h][2].arg["short_description"] = ""
        /\ calls[h][2].arg["urgency"] = "firing"
        /\ resp[h] = Success

\* the validation errors of the candidate of handler h
ValidationErrors(h) ==
    validateIncident(alertGroupToIncident(body[h].doc)).elems

\* C23: validation is advisory: a validation error on impact or urgency
\* never suppresses the create or update the reconciliation decision selects
\* and never makes the answer a non-200 one.
C23_ValidationAdvisory ==
    \A h \in Handlers :
        (/\ pc[h] = "done" /\ Parsed(h)
         /\ body[h].doc.Status \in {"firing", "resolved"}
         /\ QueryOK(h)
         /\ ValidationErrors(h) # <<>>)
        => /\ DecisionTaken(h)
           /\ ~SomeCallFailed(h) => resp[h] = Success
           /\ resp[h] # Success => resp[h][1].Body.Message = calls[h][2].err

\* a resolved group whose urgency is not an integer and whose update was
\* sent and answered 200
C23_Witness ==
    \E h \in Handlers :
        /\ pc[h] = "done" /\ Parsed(h) /\ body[h].doc.Status = "resolved"
        /\ QueryOK(h) /\ FirstUpdatableIndex(h) # 0
        /\ ValidationErrors(h) = <<NotAnInteger("urgency", "resolved")>>
        /\ CallsOf(h, "UpdateIncident") = {2}
        /\ resp[h] = Success

\* C24: when the rendered impact or urgency is not empty and not an integer,
\* the create or update proceeds without this field in the payload.
C24_InvalidFieldMissingFromPayload ==
    \A h \in Handlers :
        \A n \in 2..Len(calls[h]) :
            \A field \in {"impact", "urgency"} :
                LET candidate == alertGroupToIncident(body[h].doc)
                IN  (/\ field \in DOMAIN candidate
                     /\ candidate[field] # ""
                     /\ Atoi(candidate[field]) # NoError)
                    => field \notin DOMAIN calls[h][n].arg

\* the impact and urgency fields of an incident that are present, not nil,
\* not empty and not an integer text
BadFields(incident) ==
    {field \in {"impact", "urgency"} \cap DOMAIN incident :
        incident[field] \notin {Nil, ""} \cup IntegerTexts}

\* C22: validateIncident collects exactly one error for each of impact and
\* urgency that is present, not nil, not empty and not an integer text, no
\* error for a missing, nil, empty or integer field, and checks no other
\* field.
C22_ValidateIncidentErrors ==
    fn = "validateIncident" =>
        /\ Len(ret.elems) = Cardinality(BadFields(arg[1]))
        /\ \A field \in BadFields(arg[1]) :
              Cardinality({i \in 1..Len(ret.elems) :
                  ret.elems[i] = NotAnInteger(field, arg[1][field])}) = 1

\* impact is not an integer, urgency is empty and priority is not checked:
\* one error, about impact
C22_Witness ==
    /\ fn = "validateIncident"
    /\ DOMAIN arg[1] = {"impact", "urgency", "priority"}
    /\ arg[1]["impact"] = "<no value>"
    /\ arg[1]["urgency"] = ""
    /\ ret.elems = <<NotAnInteger("impact", "<no value>")>>

\* the set of grouping label name/value pairs of a payload
PairSet(payload) == Range(payload.groupLabels)

\* C25: the group key depends only on the set of grouping label name/value
\* pairs: two payloads with the same pairs, in any order and with any status
\* and receiver, have the same key.
C25_GroupKeyOfLabelSetOnly ==
    (fn = "getGroupKey" /\ PairSet(arg[1]) = PairSet(arg[2]))
        => ret[1] = ret[2]

\* the firing and the resolved payload of a group, labels in opposite
\* orders, have one key
C25_Witness ==
    /\ fn = "getGroupKey"
    /\ Len(arg[1].groupLabels) = 2
    /\ arg[2].groupLabels = <<arg[1].groupLabels[2], arg[1].groupLabels[1]>>
    /\ arg[1].status = "firing" /\ arg[2].status = "resolved"
    /\ arg[1].receiver # arg[2].receiver
    /\ ret[1] = ret[2]

\* C26: two alert groups whose grouping label sets differ have different
\* canonical strings, so (md5 taken as injective) different group keys.
C26_DistinctLabelsDistinctKeys ==
    (fn = "getGroupKey" /\ PairSet(arg[1]) # PairSet(arg[2]))
        => ret[1] # ret[2]

(***************************************************************************)
(* Configuration loading and client construction.                          *)
(***************************************************************************)

\* the workflow section of a configuration content, empty when absent
WorkflowOf(content) == Entry(content.document, "workflow", <<>>)

\* C27: loadConfigContent returns an error when the content omits
\* workflow.incident_group_key_field, as it does for content that is not
\* YAML.
C27_MissingGroupKeyFieldIsError ==
    fn = "loadConfigContent" =>
        ((\/ ~arg[1].wellFormed
          \/ "incident_group_key_field" \notin DOMAIN WorkflowOf(arg[1]))
            => ret.err # NoError)

\* the texts of a YAML list of integers or of texts, as a set
Listed(section, key) ==
    IF key = "no_update_states"
    THEN {ToString(n) : n \in Range(Entry(section, key, <<>>))}
    ELSE Range(Entry(section, key, <<>>))

\* C28: after loadConfigContent succeeds the returned Config, which is the
\* global one, holds the entries of the content, noUpdateStates is exactly
\* the set of no_update_states and incidentUpdateFields exactly the set of
\* incident_update_fields, whatever the lookup sets were at the call; an
\* omitted list gives an empty set, so that every state is updatable, or
\* every update payload empty.
C28_LoadedConfigIsContent ==
    (fn = "loadConfigContent" /\ ret.err = NoError) =>
        LET doc == arg[1].document
            sn == Entry(doc, "service_now", <<>>)
            wf == WorkflowOf(arg[1])
        IN  /\ ret.config = config
            /\ config.ServiceNow.InstanceName = Entry(sn, "instance_name", "")
            /\ config.ServiceNow.UserName = Entry(sn, "user_name", "")
            /\ config.ServiceNow.Password = Entry(sn, "password", "")
            /\ config.Workflow.IncidentGroupKeyField
                  = Entry(wf, "incident_group_key_field", "")
            /\ Range(config.Workflow.NoUpdateStates)
                  = Listed(wf, "no_update_states")
            /\ Len(config.Workflow.NoUpdateStates)
                  = Len(Entry(wf, "no_update_states", <<>>))
            /\ config.Workflow.IncidentUpdateFields
                  = Entry(wf, "incident_update_fields", <<>>)
            /\ config.DefaultIncident
                  = Entry(doc, "default_incident", EmptyIncident)
            /\ noUpdateStates = Listed(wf, "no_update_states")
            /\ incidentUpdateFields = Listed(wf, "incident_update_fields")
            /\ "no_update_states" \notin DOMAIN wf =>
                  /\ noUpdateStates = {}
                  /\ \A state \in {"1", "6", "7"} :
                        filterUpdatableIncidents(<<Existing(1, KeyA, state)>>)
                            = <<Existing(1, KeyA, state)>>
            /\ "incident_update_fields" \notin DOMAIN wf =>
                  /\ incidentUpdateFields = {}
                  /\ \A incident \in Incidents :
                        filterForUpdate(incident) = EmptyIncident

\* a content without the two lists loaded after one with both: the lookup
\* sets at the call were not empty and are empty afterwards
C28_Witness ==
    /\ fn = "loadConfigContent" /\ ret.err = NoError
    /\ arg[2] = {"6", "7"}
    /\ arg[3] = {"comments", "state"}
    /\ "workflow" \in DOMAIN arg[1].document
    /\ DOMAIN WorkflowOf(arg[1]) = {"incident_group_key_field"}
    /\ noUpdateStates = {}
    /\ incidentUpdateFields = {}

\* the Authorization value of HTTP Basic authentication: "Basic " and the
\* standard base64 of user:password
BasicAuth(userName, password) ==
    "Basic " \o EncodeToString(encodeStd,
                    Bytes(userName) \o Bytes(":") \o Bytes(password))

\* C29: NewServiceNowClient returns an error and no client when the instance
\* name, the user name or the password is empty, and otherwise a client
\* whose base URL is https://<instanceName>.service-now.com and whose
\* authorization header is the Basic encoding of userName:password.
C29_NewClientOrError ==
    fn = "NewServiceNowClient" =>
        IF "" \in Range(arg)
        THEN ret.err # NoError /\ ret.client = <<>>
        ELSE /\ ret.err = NoError
             /\ Len(ret.client) = 1
             /\ ret.client[1].baseURL
                   = "https://" \o arg[1] \o ".service-now.com"
             /\ ret.client[1].authHeader = BasicAuth(arg[2], arg[3])

\* C30: a ServiceNow response with status code >= 400, and a transport
\* failure, make the client operation (create, get, update) return an error
\* and no record, and the webhook caller is answered 500.
C30_HTTPErrorIsError500 ==
    (/\ fn = "doRequest"
     /\ (arg[2].err # NoError \/ arg[2].StatusCode >= 400))
    => /\ ret.err # NoError
       /\ ret.result = <<>>
       /\ Len(ret.answer) = 1
       /\ ret.answer[1].Code = 500
       /\ ret.answer[1].Body.Message = ret.err

\* an update answered 400 with a JSON body holding a record
C30_Witness ==
    /\ fn = "doRequest"
    /\ arg[1] = "UpdateIncident"
    /\ arg[2].StatusCode = 400
    /\ arg[2].Body.kind = "json"
    /\ ret.result = <<>>
    /\ ret.answer = <<sendJSONResponse(500,
                        "ServiceNow returned the HTTP error code: 400")>>

\* C31: validateIncident returns nil for an incident whose impact and urgency
\* are each absent, nil, empty or an integer text, and a non-nil result when
\* one of them is a text that is not an integer.
C31_ValidateIncidentNilWhenValid ==
    fn = "validateIncident" => (ret.isNil <=> BadFields(arg[1]) = {})

\* C32: create is called only for the status "firing", after a successful
\* query whose result holds no updatable ticket; update only for the status
\* "firing" or "resolved", after a successful query whose result holds an
\* updatable ticket; a resolved call never creates.
C32_CallsOnlyWhenSelected ==
    \A h \in Handlers :
        /\ \A n \in CallsOf(h, "CreateIncident") :
              /\ body[h].doc.Status = "firing"
              /\ n = 2
              /\ QueryOK(h)
              /\ FoundUpdatable(h) = <<>>
        /\ \A n \in CallsOf(h, "UpdateIncident") :
              /\ body[h].doc.Status \in {"firing", "resolved"}
              /\ n = 2
              /\ QueryOK(h)
              /\ FoundUpdatable(h) # <<>>
        /\ (Parsed(h) /\ body[h].doc.Status = "resolved")
              => CallsOf(h, "CreateIncident") = {}

\* a firing call that created beside a terminal ticket while a resolved
\* call, finding the same terminal ticket, made no second call
C32_Witness ==
    \E h1, h2 \in Handlers :
        /\ pc[h1] = "done" /\ pc[h2] = "done"
        /\ body[h1].doc.Status = "firing"
        /\ QueryOK(h1) /\ Found(h1) # <<>> /\ FoundUpdatable(h1) = <<>>
        /\ CallsOf(h1, "CreateIncident") = {2}
        /\ body[h2].doc.Status = "resolved"
        /\ QueryOK(h2) /\ Found(h2) # <<>> /\ FoundUpdatable(h2) = <<>>
        /\ Len(calls[h2]) = 1

\* C33: whenever the workflow applies an update to a ticket, the state of
\* that ticket in the ticketing system at the moment of the update is not in
\* no_update_states, also when another actor changes ticket states between
\* the query and the update of a call.
C33_UpdateOnlyUpdatableTicket ==
    [][\A h \in Handlers :
          (/\ Len(calls[h]) = 1
           /\ Len(calls'[h]) = 2
           /\ calls'[h][2].op = "UpdateIncident"
           /\ calls'[h][2].err = NoError)
          => GetState(tickets[IndexOf(calls'[h][2].sysID)])
                \notin noUpdateStates]_vars

\* the create or update of a request as its payload, the configuration and
\* the answer to its query determine it
Determined(h) ==
    \A n \in 2..Len(calls[h]) :
        LET candidate == alertGroupToIncident(body[h].doc)
        IN  IF calls[h][n].op = "CreateIncident"
            THEN calls[h][n].arg = candidate /\ FoundUpdatable(h) = <<>>
            ELSE /\ calls[h][n].arg = filterForUpdate(candidate)
                 /\ calls[h][n].sysID = GetSysID(FoundUpdatable(h)[1])

\* C34: handling a webhook call leaves config (with the default_incident
\* template texts), noUpdateStates and incidentUpdateFields as they were,
\* and the remote calls of a call are those its payload, the configuration
\* and the answers of the ticketing system determine, whatever calls were
\* handled before.
C34_ConfigurationReadOnly ==
    /\ [][UNCHANGED <<config, noUpdateStates, incidentUpdateFields>>]_vars
    /\ [](\A h \in Handlers : Determined(h))

\* the second request served: its create carries the rendered status while
\* default_incident still holds the template text
C34_Witness ==
    \E h \in Handlers :
        /\ "comments" \in DOMAIN config.DefaultIncident
        /\ served = 2 /\ pc[h] = "done"
        /\ \A g \in Handlers : pc[g] = "done"
        /\ CallsOf(h, "CreateIncident") = {2}
        /\ config.DefaultIncident["comments"] = "{{.Status}}"
        /\ calls[h][2].arg["comments"] = "firing"

\* C35: when loadConfigContent fails to parse its content, config,
\* noUpdateStates and incidentUpdateFields keep the values they had before
\* the call, so that the lookup sets still are those of config.
C35_FailedLoadKeepsConfiguration ==
    [][(fn' = "loadConfigContent" /\ ret'.err # NoError)
          => /\ UNCHANGED <<config, noUpdateStates, incidentUpdateFields>>
             /\ noUpdateStates' = Range(config'.Workflow.NoUpdateStates)
             /\ incidentUpdateFields'
                   = Range(config'.Workflow.IncidentUpdateFields)]_vars

\* the ticket the workflow selects among the query result: the first one
\* whose state is not in noUpdateStates
Selected(incidents) ==
    SelectSeq(incidents, LAMBDA t : t["state"] \notin noUpdateStates)

\* C36: if the ticket selected for update lacks a string sys_id or number,
\* the webhook call ends with an HTTP 500 response rather than without a
\* response.
C36_MissingKeyAnswered500 ==
    (/\ fn = "webhook"
     /\ arg[1].Status \in {"firing", "resolved"}
     /\ Selected(arg[2]) # <<>>
     /\ \/ assertString(Selected(arg[2])[1], "sys_id") # NoError
        \/ assertString(Selected(arg[2])[1], "number") # NoError)
    => /\ Len(ret.answer) = 1
       /\ ret.answer[1].Code = 500

\* the positions of the input whose ticket is not in a no-update state
KeptPositions(incidents) ==
    {i \in 1..Len(incidents) : incidents[i]["state"] \notin noUpdateStates}

\* the k-th smallest element of a set of positions
Position(positions, k) ==
    CHOOSE i \in positions : Cardinality({j \in positions : j < i}) = k - 1

\* C37: filterUpdatableIncidents returns exactly the tickets of its input
\* whose state is not in noUpdateStates, in the order of the input, none
\* twice and none altered; with an empty noUpdateStates it returns the input.
C37_FilterUpdatableExact ==
    fn = "filterUpdatableIncidents" =>
        /\ Len(ret) = Cardinality(KeptPositions(arg[1]))
        /\ \A k \in 1..Len(ret) :
              ret[k] = arg[1][Position(KeptPositions(arg[1]), k)]
        /\ noUpdateStates = {} => ret = arg[1]

\* an updatable ticket, a closed one and the first again: the closed one is
\* left out, the two others stay in order
C37_Witness ==
    /\ fn = "filterUpdatableIncidents"
    /\ noUpdateStates = {"6", "7"}
    /\ arg[1] = <<Existing(2, KeyA, "1"), Existing(1, KeyA, "6"),
                  Existing(1, KeyA, "1")>>
    /\ ret = <<Existing(2, KeyA, "1"), Existing(1, KeyA, "1")>>

====
